---------------------------- MODULE Spec2Model ----------------------------
(***************************************************************************)
(* Model of the isometric grid compositor (src/src/core/grid.ts) and of    *)
(* the colour-grading filter engine (src/src/core/filters.ts).             *)
(*                                                                         *)
(* Every exported function is one action that runs the whole function.     *)
(* Each component has its own specification (SpecOrder, SpecGrid, ...)     *)
(* whose Init draws the function's arguments from bounded sets; the        *)
(* variables of the other components stay at their idle values.            *)
(***************************************************************************)
EXTENDS Integers, Sequences, FiniteSets, TLC

VARIABLES
    pc,          \* the call that completed last ("start" before any call)
    gridSize,    \* argument gridSize of the GridGeometry functions
    outcome,     \* how that call ended: "returned" or "threw" ("none" before)
    dims,        \* value returned by calculateCanvasDimensions
    canvasWidth, \* argument canvasWidth of the last generateGridPositions call
    positions,   \* GridPosition[]: argument of sortPositionsForRendering
    sorted,      \* value returned by sortPositionsForRendering
    filterName,  \* argument filterName of the FilterEngine functions
    inputLabel,  \* argument inputLabel of getFFmpegFilterString
    outputLabel, \* argument outputLabel of getFFmpegFilterString
    filter,      \* value returned by getFilter
    filterString,\* value returned by getFFmpegFilterString
    drawn,       \* the canvas pixels as drawn, before applyCanvasFilter
    canvas,      \* the canvas pixels (ctx), a sequence of RGBA pixels
    image,       \* argument image of detectTreeContentPosition
    anchor,      \* value returned by detectTreeContentPosition
    tile,        \* argument pos of drawIsoBlock
    options,     \* argument options of drawIsoBlock
    ops,         \* the drawing calls drawIsoBlock issued on ctx, in order
    sprite,      \* arguments of calculateTreeDrawPosition
    rect,        \* value returned by calculateTreeDrawPosition
    driver,      \* the batch driver whose generateAll runs
    entity,      \* index in the registry of the entity the loop is at
    report       \* what generateAll logged for the entities so far

gridVars == <<gridSize, dims, canvasWidth, positions, sorted>>
catalogVars == <<filterName, inputLabel, outputLabel, filter, filterString>>
rasterVars == <<drawn, canvas>>
detectVars == <<image, anchor>>
tileVars == <<tile, options, ops>>
placeVars == <<sprite, rect>>
batchVars == <<driver, entity, report>>

vars == <<pc, outcome, gridVars, catalogVars, rasterVars, detectVars,
          tileVars, placeVars, batchVars>>

(***************************************************************************)
(* Bounds of the model.                                                    *)
(***************************************************************************)
MaxLen == 3        \* longest GridPosition sequence handed to the sort
MaxCoord == 1      \* largest gridX / gridY of an arbitrary GridPosition
MaxGridSize == 5   \* largest gridSize argument
MaxPixels == 1     \* most pixels of a canvas handed to applyCanvasFilter
MaxArea == 7       \* most pixels (width * height) of a sprite image
MaxAlphaArea == 4  \* most pixels of a sprite image with nearly opaque pixels
MaxSide == 3       \* largest width / height of a small sprite that is placed

(***************************************************************************)
(* grid.ts: configuration.                                                 *)
(***************************************************************************)
SCALE == 4

GRID_CONFIG ==
    [tileWidth |-> 100 * SCALE, grassHeight |-> 15 * SCALE, soilHeight |-> 40 * SCALE]

\* Math.round of the rational n/d (d > 0): floor(n/d + 1/2), halves go up.
MathRound(n, d) == (2 * n + d) \div (2 * d)

Max(a, b) == IF a >= b THEN a ELSE b

(***************************************************************************)
(* grid.ts: sortPositionsForRendering.                                     *)
(***************************************************************************)
\* The comparator handed to Array.prototype.sort, with the operands swapped.
compareDescending(a, b) == (b.gridY + b.gridX) - (a.gridY + a.gridX)

\* The comparator handed to Array.prototype.sort, with a wrong key.
compareGridYOnly(a, b) == a.gridY - b.gridY

\* The comparator handed to Array.prototype.sort.
compare(a, b) == (a.gridY + a.gridX) - (b.gridY + b.gridX)

\* Array.prototype.sort is stable (ECMAScript 2019): an element moves in front
\* of another one only when the comparator puts it strictly before.  Insert e,
\* which followed every element of the sorted prefix s in the input, into s.
RECURSIVE InsertSorted(_, _)
InsertSorted(s, e) ==
    IF s = <<>> THEN <<e>>
    ELSE IF compare(s[Len(s)], e) > 0
         THEN Append(InsertSorted(SubSeq(s, 1, Len(s) - 1), e), s[Len(s)])
         ELSE Append(s, e)

RECURSIVE ArraySort(_)
ArraySort(s) ==
    IF s = <<>> THEN <<>>
    ELSE InsertSorted(ArraySort(SubSeq(s, 1, Len(s) - 1)), s[Len(s)])

\* [...positions].sort(...): a sorted copy, the argument is left alone.
sortPositionsForRendering(ps) == ArraySort(ps)

(***************************************************************************)
(* grid.ts: calculateCanvasDimensions, generateGridPositions.              *)
(***************************************************************************)
\* calculateCanvasDimensions with the canvas sized to the width alone.
calculateCanvasDimensionsWidthOnly(n) ==
    LET totalGridWidth == (n * 2) * (GRID_CONFIG.tileWidth \div 2)
        calculatedWidth == totalGridWidth + (100 * SCALE)
    IN [width |-> calculatedWidth, height |-> calculatedWidth]

\* tileWidth is 400, so tileWidth / 2 is the integer 200.
calculateCanvasDimensions(n) ==
    LET totalGridWidth == (n * 2) * (GRID_CONFIG.tileWidth \div 2)
        calculatedWidth == totalGridWidth + (100 * SCALE)
        calculatedHeight ==
            n * (GRID_CONFIG.tileWidth \div 2)
            + (GRID_CONFIG.soilHeight + GRID_CONFIG.grassHeight) * 2 + (200 * SCALE)
        canvasSize == Max(calculatedWidth, calculatedHeight)
    IN [width |-> canvasSize, height |-> canvasSize]

\* GridPositionAt with isoX computed from x + y instead of x - y.
GridPositionAtSumOnly(x, y, cw) ==
    LET pixelX2 == cw + (x + y) * GRID_CONFIG.tileWidth
        pixelY4 == 4 * (150 * SCALE) + (x + y) * GRID_CONFIG.tileWidth
                   + GRID_CONFIG.tileWidth
    IN [gridX |-> x, gridY |-> y,
        pixelX |-> MathRound(pixelX2, 2), pixelY |-> MathRound(pixelY4, 4)]

\* GridPositionAt without the tileWidth / 4 that moves pixelY to the centre
\* of the top face.
GridPositionAtNoCentre(x, y, cw) ==
    LET pixelX2 == cw + (x - y) * GRID_CONFIG.tileWidth
        pixelY4 == 4 * (150 * SCALE) + (x + y) * GRID_CONFIG.tileWidth
    IN [gridX |-> x, gridY |-> y,
        pixelX |-> MathRound(pixelX2, 2), pixelY |-> MathRound(pixelY4, 4)]

\* One iteration of the inner loop: the position pushed for (x, y).
\* pixelX = startX + isoX is kept in halves, pixelY in quarters, then rounded.
GridPositionAt(x, y, cw) ==
    LET pixelX2 == cw + (x - y) * GRID_CONFIG.tileWidth
        pixelY4 == 4 * (150 * SCALE) + (x + y) * GRID_CONFIG.tileWidth
                   + GRID_CONFIG.tileWidth
    IN [gridX |-> x, gridY |-> y,
        pixelX |-> MathRound(pixelX2, 2), pixelY |-> MathRound(pixelY4, 4)]

\* The nested loops, y outer and x inner; both are empty for gridSize <= 0.
\* Entry k (from 1) of the result is the push of iteration y = (k-1) div n,
\* x = (k-1) mod n.
generateGridPositions(n, cw) ==
    IF n <= 0 THEN <<>>
    ELSE [k \in 1..(n * n) |-> GridPositionAt((k - 1) % n, (k - 1) \div n, cw)]

(***************************************************************************)
(* filters.ts: the catalog FILTERS.  Decimal fields are kept as integers:  *)
(* saturationPct is 100 * saturation, opacityPct is 100 * opacity.  The    *)
(* optional fields temperature and colorOverlay are absent from `none`.    *)
(***************************************************************************)
FILTERS ==
    [none |->
        [name |-> "none", ffmpegFilter |-> "",
         canvasAdjustments |->
            [brightness |-> 0, contrast |-> 0, saturationPct |-> 100, hue |-> 0]],
     winter |->
        [name |-> "winter",
         ffmpegFilter |-> "colorbalance=bs=0.15:bm=0.1:bh=0.05:rs=-0.1:gs=-0.05,eq=brightness=0.05:saturation=0.85",
         canvasAdjustments |->
            [brightness |-> 5, contrast |-> 5, saturationPct |-> 85, hue |-> -10,
             temperature |-> -30,
             colorOverlay |-> [r |-> 200, g |-> 220, b |-> 255, opacityPct |-> 8]]],
     autumn |->
        [name |-> "autumn",
         ffmpegFilter |-> "colorbalance=rs=0.15:rm=0.1:rh=0.05:gs=0.05:bs=-0.1:bm=-0.1,eq=saturation=1.2:contrast=1.05",
         canvasAdjustments |->
            [brightness |-> 0, contrast |-> 8, saturationPct |-> 120, hue |-> 15,
             temperature |-> 40,
             colorOverlay |-> [r |-> 255, g |-> 180, b |-> 100, opacityPct |-> 6]]],
     spring |->
        [name |-> "spring",
         ffmpegFilter |-> "colorbalance=gs=0.1:gm=0.08:rs=0.05,eq=brightness=0.08:saturation=1.15",
         canvasAdjustments |->
            [brightness |-> 8, contrast |-> 3, saturationPct |-> 115, hue |-> 5,
             temperature |-> 10,
             colorOverlay |-> [r |-> 220, g |-> 255, b |-> 220, opacityPct |-> 5]]],
     summer |->
        [name |-> "summer",
         ffmpegFilter |-> "colorbalance=rs=0.1:rm=0.08:gs=0.05:bs=-0.05,eq=brightness=0.1:saturation=1.1:contrast=1.05",
         canvasAdjustments |->
            [brightness |-> 10, contrast |-> 5, saturationPct |-> 110, hue |-> 10,
             temperature |-> 25,
             colorOverlay |-> [r |-> 255, g |-> 240, b |-> 200, opacityPct |-> 7]]],
     night |->
        [name |-> "night",
         ffmpegFilter |-> "colorbalance=bs=0.25:bm=0.2:bh=0.15:rs=-0.15:gs=-0.1,eq=brightness=-0.15:saturation=0.7:contrast=1.1",
         canvasAdjustments |->
            [brightness |-> -15, contrast |-> 10, saturationPct |-> 70, hue |-> -20,
             temperature |-> -50,
             colorOverlay |-> [r |-> 50, g |-> 80, b |-> 150, opacityPct |-> 15]]],
     sepia |->
        [name |-> "sepia",
         ffmpegFilter |-> "colorchannelmixer=.393:.769:.189:0:.349:.686:.168:0:.272:.534:.131",
         canvasAdjustments |->
            [brightness |-> 0, contrast |-> 5, saturationPct |-> 30, hue |-> 30,
             temperature |-> 30,
             colorOverlay |-> [r |-> 210, g |-> 180, b |-> 140, opacityPct |-> 20]]],
     vintage |->
        [name |-> "vintage",
         ffmpegFilter |-> "curves=vintage,eq=saturation=0.9:contrast=0.95",
         canvasAdjustments |->
            [brightness |-> 5, contrast |-> -5, saturationPct |-> 90, hue |-> 5,
             temperature |-> 15,
             colorOverlay |-> [r |-> 250, g |-> 240, b |-> 230, opacityPct |-> 10]]]]

\* The type FilterName: the own keys of FILTERS.
FilterName == DOMAIN FILTERS

(***************************************************************************)
(* filters.ts: getFilter, getFFmpegFilterString.                           *)
(***************************************************************************)
\* FILTERS is an object literal, so its prototype is Object.prototype: a
\* property read FILTERS[name] of a name that is no own key finds the members
\* every object inherits, and is undefined for the other names.
ObjectPrototypeKeys ==
    {"constructor", "toString", "toLocaleString", "valueOf", "hasOwnProperty",
     "isPrototypeOf", "propertyIsEnumerable", "__proto__", "__defineGetter__",
     "__defineSetter__", "__lookupGetter__", "__lookupSetter__"}

Undefined == [type |-> "undefined"]

\* Object.prototype[key]: a function (the object itself for __proto__); it is
\* truthy and has none of the properties of a FilterConfig.
Inherited(key) == [type |-> "inherited", key |-> key]

\* FILTERS[name]
FiltersGet(name) ==
    IF name \in DOMAIN FILTERS THEN FILTERS[name]
    ELSE IF name \in ObjectPrototypeKeys THEN Inherited(name)
    ELSE Undefined

\* value.key is not undefined, for an object value.
Has(value, key) == key \in DOMAIN value

\* FILTERS[name] || FILTERS.none
getFilter(name) ==
    IF FiltersGet(name) # Undefined THEN FiltersGet(name) ELSE FILTERS.none

\* getFFmpegFilterString without the early return for an empty fragment.
getFFmpegFilterStringNoSkip(name, inLabel, outLabel) ==
    LET f == getFilter(name)
        fragment == IF Has(f, "ffmpegFilter") THEN f.ffmpegFilter ELSE "undefined"
    IN inLabel \o fragment \o outLabel

\* !filter.ffmpegFilter holds for undefined and for the empty string.
getFFmpegFilterString(name, inLabel, outLabel) ==
    LET f == getFilter(name)
    IN IF ~Has(f, "ffmpegFilter") \/ f.ffmpegFilter = ""
       THEN ""
       ELSE inLabel \o f.ffmpegFilter \o outLabel

(***************************************************************************)
(* Exact arithmetic for the per-pixel pipeline.  The code computes in      *)
(* doubles; the model computes the same expressions in exact rationals.    *)
(* An integer of any size is a sequence of limbs, least significant first, *)
(* in base Base; the last limb carries the sign.                           *)
(***************************************************************************)
Base == 100 * 100

\* The limbs of s + c * Base^0 with every limb but the last in 0..Base-1.
RECURSIVE BigNorm(_, _)
BigNorm(s, c) ==
    IF s = <<>>
    THEN IF c >= -Base /\ c < Base THEN <<c>>
         ELSE <<c % Base>> \o BigNorm(<<>>, c \div Base)
    ELSE LET v == Head(s) + c
         IN IF Len(s) = 1 THEN BigNorm(<<>>, v)
            ELSE <<v % Base>> \o BigNorm(Tail(s), v \div Base)

BigOf(n) == BigNorm(<<n>>, 0)

Limb(a, i) == IF i <= Len(a) THEN a[i] ELSE 0

BigAdd(a, b) ==
    BigNorm([i \in 1..Max(Len(a), Len(b)) |-> Limb(a, i) + Limb(b, i)], 0)

BigSub(a, b) ==
    BigNorm([i \in 1..Max(Len(a), Len(b)) |-> Limb(a, i) - Limb(b, i)], 0)

\* a * k for an integer k with |k| * Base below 2^31.
BigMul(a, k) == BigNorm([i \in 1..Len(a) |-> a[i] * k], 0)

BigNegative(a) == a[Len(a)] < 0

BigLess(a, b) == BigNegative(BigSub(a, b))

BigMin(a, b) == IF BigLess(b, a) THEN b ELSE a

BigMax(a, b) == IF BigLess(a, b) THEN b ELSE a

\* floor(a / d) for an integer d with 0 < d and d * Base below 2^31: long
\* division from the most significant limb, rem the remainder carried down.
RECURSIVE BigDivFrom(_, _, _, _)
BigDivFrom(a, i, rem, d) ==
    IF i = 0 THEN <<>>
    ELSE LET cur == rem * Base + a[i]
         IN Append(BigDivFrom(a, i - 1, cur % d, d), cur \div d)

BigDiv(a, d) == BigNorm(BigDivFrom(a, Len(a), 0, d), 0)

RECURSIVE BigDivAll(_, _)
BigDivAll(a, ds) ==
    IF ds = <<>> THEN a ELSE BigDivAll(BigDiv(a, Head(ds)), Tail(ds))

RECURSIVE BigMulAll(_, _)
BigMulAll(a, ks) ==
    IF ks = <<>> THEN a ELSE BigMulAll(BigMul(a, Head(ks)), Tail(ks))

\* The value of a as an integer, for |a| below 2^31.
RECURSIVE BigToInt(_)
BigToInt(a) ==
    IF Len(a) = 1 THEN a[1] ELSE a[1] + Base * BigToInt(Tail(a))

(***************************************************************************)
(* filters.ts: applyCanvasFilter.  While a pixel is processed its three    *)
(* channels r, g, b are rationals with a common denominator: the record    *)
(* [r, g, b, den] stands for r / D, g / D, b / D with D the product of the *)
(* factors in den.                                                         *)
(***************************************************************************)
Min(a, b) == IF a <= b THEN a ELSE b

\* let r = data[i], g = data[i + 1], b = data[i + 2]
ChannelsOf(pixel) ==
    [r |-> BigOf(pixel.r), g |-> BigOf(pixel.g), b |-> BigOf(pixel.b), den |-> <<>>]

\* The same three values over a denominator k times as large.
Times(px, k) ==
    [r |-> BigMul(px.r, k), g |-> BigMul(px.g, k), b |-> BigMul(px.b, k),
     den |-> Append(px.den, k)]

\* The integer n over the denominator of px.
Const(px, n) == BigMulAll(BigOf(n), px.den)

\* Lines 243-255 without Math.min and Math.max.
applyTemperatureUnclamped(px, adj) ==
    IF Has(adj, "temperature") /\ adj.temperature # 0
    THEN LET t == adj.temperature
             p == Times(px, 100)
         IN IF t > 0
            THEN [p EXCEPT
                    !.r = BigAdd(p.r, Const(px, t * 30)),
                    !.g = BigAdd(p.g, Const(px, t * 10)),
                    !.b = BigSub(p.b, Const(px, t * 20))]
            ELSE [p EXCEPT
                    !.r = BigAdd(p.r, Const(px, t * 20)),
                    !.b = BigSub(p.b, Const(px, t * 30))]
    ELSE px

\* Lines 243-255; tempFactor = temperature / 100 brings the factor 100.
applyTemperature(px, adj) ==
    IF Has(adj, "temperature") /\ adj.temperature # 0
    THEN LET t == adj.temperature
             p == Times(px, 100)
         IN IF t > 0
            THEN [p EXCEPT
                    !.r = BigMin(Const(p, 255), BigAdd(p.r, Const(px, t * 30))),
                    !.g = BigMin(Const(p, 255), BigAdd(p.g, Const(px, t * 10))),
                    !.b = BigMax(Const(p, 0), BigSub(p.b, Const(px, t * 20)))]
            ELSE [p EXCEPT
                    !.r = BigMax(Const(p, 0), BigAdd(p.r, Const(px, t * 20))),
                    !.b = BigMin(Const(p, 255), BigSub(p.b, Const(px, t * 30)))]
    ELSE px

\* Lines 258-263; gray has the factor 1000, saturation the factor 100.
applySaturation(px, adj) ==
    IF adj.saturationPct # 100
    THEN LET gray == BigAdd(BigAdd(BigMul(px.r, 299), BigMul(px.g, 587)),
                            BigMul(px.b, 114))
             p == Times(px, 1000)
             Sat(c) == BigAdd(BigMul(gray, 100), BigMul(BigSub(c, gray), adj.saturationPct))
         IN [r |-> Sat(p.r), g |-> Sat(p.g), b |-> Sat(p.b), den |-> Append(p.den, 100)]
    ELSE px

\* Lines 266-271; brightFactor = brightness * 2.55 = brightness * 255 / 100.
applyBrightness(px, adj) ==
    IF adj.brightness # 0
    THEN LET p == Times(px, 100)
             brightFactor == Const(px, adj.brightness * 255)
         IN [p EXCEPT !.r = BigAdd(p.r, brightFactor),
                      !.g = BigAdd(p.g, brightFactor),
                      !.b = BigAdd(p.b, brightFactor)]
    ELSE px

\* Lines 274-279; contrastFactor = num / div.
applyContrast(px, adj) ==
    IF adj.contrast # 0
    THEN LET num == 259 * (adj.contrast + 255)
             div == 255 * (259 - adj.contrast)
             p == Times(px, div)
             Con(c) == BigAdd(BigMul(BigSub(c, Const(px, 128)), num), Const(p, 128))
         IN [p EXCEPT !.r = Con(px.r), !.g = Con(px.g), !.b = Con(px.b)]
    ELSE px

\* Lines 282-287; opacity = opacityPct / 100.
applyColorOverlay(px, adj) ==
    IF Has(adj, "colorOverlay") /\ adj.colorOverlay.opacityPct > 0
    THEN LET overlay == adj.colorOverlay
             p == Times(px, 100)
             Blend(c, oc) ==
                 BigAdd(BigMul(c, 100 - overlay.opacityPct),
                        Const(px, oc * overlay.opacityPct))
         IN [p EXCEPT !.r = Blend(px.r, overlay.r),
                      !.g = Blend(px.g, overlay.g),
                      !.b = Blend(px.b, overlay.b)]
    ELSE px

\* The channels of a pixel when line 289 is reached.
Adjusted(pixel, adj) ==
    applyColorOverlay(
        applyContrast(
            applyBrightness(
                applySaturation(
                    applyTemperature(ChannelsOf(pixel), adj), adj), adj), adj), adj)

\* Math.round(c / D) = floor((2 * c + D) / (2 * D)).
BigRound(c, den) ==
    BigToInt(BigDivAll(BigAdd(BigMul(c, 2), BigMulAll(BigOf(1), den)), Append(den, 2)))

\* The clamp without its upper limit.
ClampNoUpperLimit(v) == Max(0, v)

\* Math.max(0, Math.min(255, v))
Clamp(v) == Max(0, Min(255, v))

\* The doubles of the code and exact arithmetic round to the same integer for
\* every colour and every preset, but for these colours under `vintage`: the
\* exact value of the named channel is halfway between two integers and the
\* double is just below it, so that Math.round gives the lower one.
HalfwayRoundedDown ==
    {<<8, 212, 120, "r">>, <<11, 167, 107, "r">>, <<14, 122, 94, "r">>,
     <<17, 77, 81, "r">>, <<22, 24, 25, "g">>, <<48, 22, 125, "g">>,
     <<61, 21, 175, "g">>, <<104, 98, 21, "b">>, <<135, 253, 10, "b">>,
     <<163, 99, 19, "b">>, <<214, 18, 26, "g">>, <<222, 100, 17, "b">>,
     <<227, 17, 76, "g">>, <<240, 16, 126, "g">>}

\* Math.round(c) for channel ch of the pixel, c being px[ch] over px.den.
RoundChannel(pixel, adj, px, ch) ==
    IF adj = FILTERS.vintage.canvasAdjustments
       /\ <<pixel.r, pixel.g, pixel.b, ch>> \in HalfwayRoundedDown
    THEN BigRound(px[ch], px.den) - 1
    ELSE BigRound(px[ch], px.den)

\* One iteration of the loop of lines 233-293: the four bytes of the pixel
\* afterwards.  A fully transparent pixel is skipped; alpha is never written.
filterPixel(pixel, adj) ==
    IF pixel.a = 0 THEN pixel
    ELSE LET px == Adjusted(pixel, adj)
         IN [r |-> Clamp(RoundChannel(pixel, adj, px, "r")),
             g |-> Clamp(RoundChannel(pixel, adj, px, "g")),
             b |-> Clamp(RoundChannel(pixel, adj, px, "b")),
             a |-> pixel.a]

\* applyCanvasFilter with the early return for 'none' lost and the
\* adjustments of the first graded preset applied to every name.
applyCanvasFilterNoneGraded(data, name) ==
    [outcome |-> "returned",
     data |-> [i \in DOMAIN data |->
                  filterPixel(data[i], FILTERS.winter.canvasAdjustments)]]

\* applyCanvasFilter on the pixels data of the canvas: how the call ends and
\* the pixels of the canvas afterwards.  getImageData copies the pixels and
\* only putImageData (line 296) writes them back, so a call that throws
\* leaves the canvas as it was.  For a name that resolves to an inherited
\* member, adj is undefined and reading adj.temperature throws a TypeError
\* at the first pixel that is not skipped.
applyCanvasFilter(data, name) ==
    LET f == getFilter(name)
    IN IF name = "none" THEN [outcome |-> "returned", data |-> data]
       ELSE IF ~Has(f, "canvasAdjustments")
       THEN [outcome |-> IF \E i \in DOMAIN data : data[i].a # 0
                         THEN "threw" ELSE "returned",
             data |-> data]
       ELSE [outcome |-> "returned",
             data |-> [i \in DOMAIN data |-> filterPixel(data[i], f.canvasAdjustments)]]

(***************************************************************************)
(* The doubles of detectTreeContentPosition.  Its numbers are 0 or lie     *)
(* between 2^-11 and 2^14, so each is a multiple of 2^-63: a double d is   *)
(* held as the integer d * 2^63.  Every operation rounds its exact result  *)
(* to 53 significant bits, ties to even, as IEEE 754 arithmetic does.      *)
(***************************************************************************)
DoubleOne == BigMulAll(BigOf(1), <<8192, 8192, 8192, 8192, 2048>>)

TwoTo52 == BigMulAll(BigOf(1), <<8192, 8192, 8192, 8192>>)

RECURSIVE Pow2(_)
Pow2(j) == IF j = 0 THEN 1 ELSE 2 * Pow2(j - 1)

\* 2^j as a sequence of factors of at most 2^16.
RECURSIVE Pow2Factors(_)
Pow2Factors(j) ==
    IF j <= 16 THEN <<Pow2(j)>> ELSE <<Pow2(16)>> \o Pow2Factors(j - 16)

\* n / d >= 2^(53 + j)
Exceeds(n, d, j) == ~BigLess(n, BigMulAll(BigMul(TwoTo52, 2 * d), Pow2Factors(j)))

\* The least k >= j with n / d < 2^(53 + k), searched in steps of eight
\* and then of one: the doubles next to n / d are the multiples of 2^k.
RECURSIVE Binade(_, _, _)
Binade(n, d, j) ==
    IF Exceeds(n, d, j + 7) THEN Binade(n, d, j + 8)
    ELSE IF Exceeds(n, d, j) THEN Binade(n, d, j + 1)
    ELSE j

\* diff is twice the remainder of a division less the divisor: round up
\* above the halfway point, and at it when the quotient q is odd.
RoundUp(q, diff) ==
    IF \A i \in DOMAIN diff : diff[i] = 0 THEN q[1] % 2 = 1 ELSE ~BigNegative(diff)

RoundQuotientOf(n, factors, q) ==
    IF RoundUp(q, BigSub(BigMul(BigSub(n, BigMulAll(q, factors)), 2),
                         BigMulAll(BigOf(1), factors)))
    THEN BigAdd(q, BigOf(1))
    ELSE q

\* n divided by the product of factors, rounded to the nearest integer,
\* ties to even.
RoundQuotient(n, factors) == RoundQuotientOf(n, factors, BigDivAll(n, factors))

RoundToDoubleAt(n, d, j) ==
    BigMulAll(RoundQuotient(n, <<d>> \o Pow2Factors(j)), Pow2Factors(j))

\* The double nearest to n / d, for n >= 0 and d > 0.
RoundToDouble(n, d) ==
    IF \A i \in DOMAIN n : n[i] = 0 THEN n ELSE RoundToDoubleAt(n, d, Binade(n, d, 0))

(***************************************************************************)
(* grid.ts: detectTreeContentPosition.  An image is [width, height, data], *)
(* data the RGBA pixels row by row; the code's data[(y * width + x) * 4]   *)
(* is the red byte of data[y * width + x + 1] here.                        *)
(***************************************************************************)
PixelAt(img, x, y) == img.data[y * img.width + x + 1]

\* The test of lines 112 and 156 with the threshold lost.
IsSolidAnyAlpha(alpha) == alpha > 0

\* alpha > 245, lines 112 and 156
IsSolid(alpha) == alpha > 245

SolidColumns(img, y) == {x \in 0..(img.width - 1) : IsSolid(PixelAt(img, x, y).a)}

RECURSIVE SumOver(_, _, _)
SumOver(img, y, xs) ==
    IF xs = {} THEN 0
    ELSE LET x == CHOOSE c \in xs : TRUE
             px == PixelAt(img, x, y)
         IN (765 - (px.r + px.g + px.b)) * px.a + SumOver(img, y, xs \ {x})

\* The solid pixels of row y from column x on, in the order of the loop of
\* line 105.
RECURSIVE SolidPixelsFrom(_, _, _)
SolidPixelsFrom(img, y, x) ==
    IF x >= img.width THEN <<>>
    ELSE (IF IsSolid(PixelAt(img, x, y).a) THEN <<PixelAt(img, x, y)>> ELSE <<>>)
         \o SolidPixelsFrom(img, y, x + 1)

\* Lines 101-121 for row y: solid holds the pixels that pass line 112, from
\* which lines 116-118 and 124 compute the row's darkness; total is the
\* exact sum of (765 - brightness) * alpha, 255 times the exact total
\* darkness.
RowStats(img, y) ==
    [y |-> y,
     total |-> SumOver(img, y, SolidColumns(img, y)),
     count |-> Cardinality(SolidColumns(img, y)),
     solid |-> SolidPixelsFrom(img, y, 0)]

\* (765 - brightness) * (alpha / 255), lines 116-117: the quotient is
\* rounded, then the product.
darkness(px) ==
    RoundToDouble(BigMul(RoundToDouble(BigMul(DoubleOne, px.a), 255),
                         765 - (px.r + px.g + px.b)), 1)

\* totalDarkness += darkness over pixels[i..], line 118, every sum rounded.
RECURSIVE totalDarkness(_, _, _)
totalDarkness(pixels, i, total) ==
    IF i > Len(pixels) THEN total
    ELSE totalDarkness(pixels, i + 1,
                       RoundToDouble(BigAdd(total, darkness(pixels[i])), 1))

\* totalDarkness / pixelCount, line 124
avgDarkness(row) == RoundToDouble(totalDarkness(row.solid, 1, BigOf(0)), row.count)

\* Every solid pixel of the row has alpha 255.  Then alpha / 255 is 1, every
\* darkness and the total are integers held exactly by a double, and the
\* rounded quotients total / pixelCount of two such rows compare as the
\* exact fractions do: rounding keeps the order, and two different
\* fractions with denominators up to the image width are further apart than
\* neighbouring doubles below 1024 for any width below 2^21.
IsOpaqueRow(row) == \A i \in DOMAIN row.solid : row.solid[i].a = 255

\* The loop of lines 100-130 from row y down to row 0, candidateRows so far
\* being rows.  It ends early once candidateRows.length > image.height * 0.3.
RECURSIVE ScanRows(_, _, _)
ScanRows(img, y, rows) ==
    IF y < 0 THEN rows
    ELSE LET row == RowStats(img, y)
         IN IF row.count > 0
            THEN IF 10 * (Len(rows) + 1) > 3 * img.height
                 THEN Append(rows, row)
                 ELSE ScanRows(img, y - 1, Append(rows, row))
            ELSE ScanRows(img, y - 1, rows)

\* candidate.darkness > darkestRow.darkness, with the average darkness of
\* every row taken in exact arithmetic.
DarkerExact(a, b) == a.total * b.count > b.total * a.count

\* candidate.darkness > darkestRow.darkness, with >= in place of >.
DarkerOrEqual(a, b) ==
    IF IsOpaqueRow(a) /\ IsOpaqueRow(b)
    THEN a.total * b.count >= b.total * a.count
    ELSE ~BigLess(avgDarkness(a), avgDarkness(b))

\* candidate.darkness > darkestRow.darkness, line 140
Darker(a, b) ==
    IF IsOpaqueRow(a) /\ IsOpaqueRow(b)
    THEN a.total * b.count > b.total * a.count
    ELSE BigLess(avgDarkness(b), avgDarkness(a))

\* The loop of lines 138-143 over candidateRows[i..], darkestRow being best.
RECURSIVE DarkestFrom(_, _, _)
DarkestFrom(rows, i, best) ==
    IF i > Len(rows) THEN best
    ELSE DarkestFrom(rows, i + 1, IF Darker(rows[i], best) THEN rows[i] ELSE best)

SetMin(S) == CHOOSE m \in S : \A n \in S : m <= n

SetMax(S) == CHOOSE m \in S : \A n \in S : m >= n

\* xOffset is (leftmost + rightmost) / 2 - image.width / 2, a multiple of
\* one half: the field xOffsetX2 is twice xOffset.
detectTreeContentPosition(img) ==
    LET candidateRows == ScanRows(img, img.height - 1, <<>>)
    IN IF Len(candidateRows) = 0
       THEN [xOffsetX2 |-> 0, yPadding |-> 0, contentWidth |-> 0]
       ELSE LET darkestRow == DarkestFrom(candidateRows, 1, candidateRows[1])
                bottomY == darkestRow.y
                leftmost == SetMin(SolidColumns(img, bottomY))
                rightmost == SetMax(SolidColumns(img, bottomY))
            IN [xOffsetX2 |-> (leftmost + rightmost) - img.width,
                yPadding |-> img.height - bottomY - 1,
                contentWidth |-> rightmost - leftmost + 1]

(***************************************************************************)
(* grid.ts: the tile renderer.  The drawing surface ctx is modelled by the *)
(* sequence of drawing calls issued on it.  A coordinate is kept exact: the *)
(* record [base, den, num, rad] stands for base / den + num / sqrt(rad).   *)
(***************************************************************************)
WAVE_AMPLITUDE == 3 * SCALE

WAVE_FREQUENCY == 2

WAVE_SEGMENTS == 16

COLORS ==
    [grass |-> [top |-> "#E8F0F8", sideLight |-> "#D4E2ED", sideDark |-> "#C5D6E3",
                tuft |-> "#B8CCDB", gridStroke |-> "#CDE0EC"],
     soil |-> [sideLight |-> "#8B9298", sideDark |-> "#6E757A"]]

\* The integer n as a coordinate.
Exact(n) == [base |-> n, den |-> 1, num |-> 0, rad |-> 1]

\* {x, y} with integer members.
Pt(x, y) == [x |-> Exact(x), y |-> Exact(y)]

\* Math.sin(phase) for phase = t * Math.PI * 2 * waveFrequency, t = i / segments:
\* the phase is a multiple of pi / 4 when segments divides 8 * waveFrequency * i.
\* The sine is sign / sqrt(root) with sign in {-1, 0, 1} and root in {1, 2}.
SinOfPhase(i, waveFrequency, segments) ==
    LET octant == ((8 * waveFrequency * i) \div segments) % 8
    IN CASE octant \in {0, 4} -> [sign |-> 0, root |-> 1]
         [] octant = 2 -> [sign |-> 1, root |-> 1]
         [] octant = 6 -> [sign |-> -1, root |-> 1]
         [] octant \in {1, 3} -> [sign |-> 1, root |-> 2]
         [] octant \in {5, 7} -> [sign |-> -1, root |-> 2]

\* base + perp * waveOffset for one coordinate: base = start + d * i / segments,
\* perp = perpNum / length, waveOffset = sin * waveAmplitude.
WavyCoordinate(start, d, i, segments, perpNum, len2, sin, waveAmplitude) ==
    IF sin.sign = 0 \/ perpNum = 0
    THEN [base |-> segments * start + d * i, den |-> segments, num |-> 0, rad |-> 1]
    ELSE [base |-> segments * start + d * i, den |-> segments,
          num |-> perpNum * sin.sign * waveAmplitude, rad |-> len2 * sin.root]

\* generateWavyEdge: segments + 1 points from the start to the end of the edge.
generateWavyEdge(startX, startY, endX, endY, waveAmplitude, waveFrequency, segments) ==
    LET dx == endX - startX
        dy == endY - startY
        len2 == dx * dx + dy * dy
    IN [k \in 1..(segments + 1) |->
           LET sin == SinOfPhase(k - 1, waveFrequency, segments)
           IN [x |-> WavyCoordinate(startX, dx, k - 1, segments, -dy, len2, sin,
                                    waveAmplitude),
               y |-> WavyCoordinate(startY, dy, k - 1, segments, dx, len2, sin,
                                    waveAmplitude)]]

\* The arguments of a call of generateWavyEdge.
EdgeArgs(from, to) ==
    [startX |-> from.x, startY |-> from.y, endX |-> to.x, endY |-> to.y,
     waveAmplitude |-> WAVE_AMPLITUDE, waveFrequency |-> WAVE_FREQUENCY,
     segments |-> WAVE_SEGMENTS]

WavyEdgeOf(args) ==
    generateWavyEdge(args.startX, args.startY, args.endX, args.endY,
                     args.waveAmplitude, args.waveFrequency, args.segments)

Reverse(s) == [k \in 1..Len(s) |-> s[Len(s) + 1 - k]]

\* drawWavyGrassSide: the wavy edge runs from bottomLeft to bottomRight and
\* is drawn in the reverse direction.  Corners are {x, y} with integer members.
drawWavyGrassSide(topLeft, topRight, bottomRight, bottomLeft, color) ==
    LET edge == EdgeArgs(bottomLeft, bottomRight)
        wavyBottom == WavyEdgeOf(edge)
    IN [call |-> "drawWavyGrassSide", edge |-> edge, wavy |-> wavyBottom,
        path |-> <<Pt(topLeft.x, topLeft.y), Pt(topRight.x, topRight.y)>>
                 \o Reverse(wavyBottom) \o <<Pt(topLeft.x, topLeft.y)>>,
        fill |-> color, stroke |-> color, lineWidth |-> 1 * SCALE]

\* drawWavySoilSide with the wavy edge generated from topRight to topLeft.
drawWavySoilSideReversed(topLeft, topRight, bottomRight, bottomLeft, color) ==
    LET edge == EdgeArgs(topRight, topLeft)
        wavyTop == WavyEdgeOf(edge)
    IN [call |-> "drawWavySoilSide", edge |-> edge, wavy |-> wavyTop,
        path |-> wavyTop
                 \o <<Pt(bottomRight.x, bottomRight.y), Pt(bottomLeft.x, bottomLeft.y),
                      wavyTop[1]>>,
        fill |-> color, stroke |-> color, lineWidth |-> 1 * SCALE]

\* drawWavySoilSide: the wavy edge runs from topLeft to topRight.
drawWavySoilSide(topLeft, topRight, bottomRight, bottomLeft, color) ==
    LET edge == EdgeArgs(topLeft, topRight)
        wavyTop == WavyEdgeOf(edge)
    IN [call |-> "drawWavySoilSide", edge |-> edge, wavy |-> wavyTop,
        path |-> wavyTop
                 \o <<Pt(bottomRight.x, bottomRight.y), Pt(bottomLeft.x, bottomLeft.y),
                      wavyTop[1]>>,
        fill |-> color, stroke |-> color, lineWidth |-> 1 * SCALE]

\* drawPoly on a polygon that is not empty.
drawPoly(points, color, strokeColor) ==
    [call |-> "drawPoly", path |-> [k \in DOMAIN points |-> Pt(points[k].x, points[k].y)],
     fill |-> color, stroke |-> strokeColor, lineWidth |-> 1 * SCALE]

\* drawShadow; a radius is the fraction num / den.  contentWidth is falsy
\* when it is undefined or 0: both are the value 0 here.  The default radius
\* is tileWidth / 4.5, and radiusY is radiusX / 2.5.
drawShadow(centerX, centerY, contentWidth) ==
    LET radiusX == IF contentWidth # 0 THEN [num |-> contentWidth, den |-> 2]
                   ELSE [num |-> 2 * GRID_CONFIG.tileWidth, den |-> 9]
    IN [call |-> "drawShadow", centerX |-> centerX, centerY |-> centerY,
        radiusX |-> radiusX,
        radiusY |-> [num |-> 2 * radiusX.num, den |-> 5 * radiusX.den],
        fill |-> "rgba(40, 60, 20, 0.066)"]

\* Math.sin(gridX * 12.9898 + gridY * 78.233) * 43758.5453 in thousandths,
\* rounded, for gridX and gridY in 0..6: row gridY + 1, column gridX + 1.
TuftSeeds ==
    <<<<0, 17979922, 32784057, 41797558, 43428374, 37388453, 24744626>>,
      <<13216183, -5091260, -22499436, -35933545, -43020728, -42509177, -34489247>>,
      <<-25197973, -8272926, 10113364, 26713335, 38594941, 43659538, 41012569>>,
      <<34826269, 20864420, 3217296, -14998097, -30564382, -40732094, -43705312>>,
      <<-41201789, -31507175, -16247461, 1882034, 19679107, 34000267, 42315974>>,
      <<43729056, 39207156, 27760112, 11409810, -6955801, -24092812, -36974320>>,
      <<-42172025, -43245184, -36679964, -23635977, -6417177, 11935086, 28179260>>>>

TuftSeed(gridX, gridY) == TuftSeeds[gridY + 1][gridX + 1]

\* a % m of JavaScript for m > 0: the result has the sign of a.
JsRem(a, m) == IF a >= 0 THEN a % m ELSE -((-a) % m)

\* drawTuft; the centre is in thousandths of a pixel.
drawTuft(centerX1000, centerY1000) ==
    LET size == 6 * SCALE
    IN [call |-> "drawTuft",
        path |-> <<[x |-> centerX1000 - 1000 * size, y |-> centerY1000 - 500 * size],
                   [x |-> centerX1000, y |-> centerY1000 + 500 * size],
                   [x |-> centerX1000 + 1000 * size, y |-> centerY1000 - 500 * size]>>,
        stroke |-> COLORS.grass.tuft, lineWidth |-> 2 * SCALE]

\* Lines 381-388: the tuft of a tile, if it gets one.
TuftOf(pos) ==
    LET seed == TuftSeed(pos.gridX, pos.gridY)
        randX == JsRem(seed * 10, 1000 * (20 * SCALE)) - 1000 * (10 * SCALE)
        randY == JsRem(seed * 20, 1000 * (10 * SCALE)) - 1000 * (5 * SCALE)
    IN IF seed % 1000 > 500
       THEN <<drawTuft(1000 * pos.pixelX + randX, 1000 * pos.pixelY + randY)>>
       ELSE <<>>

\* Lines 376-388 with the tuft drawn whether or not the tile has a shadow.
DetailsTuftOverShadow(pos, opts) ==
    (IF opts.hasShadow
     THEN <<drawShadow(pos.pixelX, pos.pixelY, opts.shadowWidth)>> ELSE <<>>)
    \o (IF opts.drawTufts THEN TuftOf(pos) ELSE <<>>)

\* Lines 376-388: the shadow and the tuft.
Details(pos, opts) ==
    (IF opts.hasShadow
     THEN <<drawShadow(pos.pixelX, pos.pixelY, opts.shadowWidth)>> ELSE <<>>)
    \o (IF opts.drawTufts /\ ~opts.hasShadow THEN TuftOf(pos) ELSE <<>>)

\* drawIsoBlock: the drawing calls in the order they are issued.  w / 2 and
\* h / 2 are the integers 200 and 100.
drawIsoBlock(pos, opts) ==
    LET pixelX == pos.pixelX
        pixelY == pos.pixelY
        w == GRID_CONFIG.tileWidth
        h == GRID_CONFIG.tileWidth \div 2
        topPointY == pixelY - (h \div 2)
        soilY == topPointY + GRID_CONFIG.grassHeight
        XY(x, y) == [x |-> x, y |-> y]
    IN <<drawWavySoilSide(
            XY(pixelX, soilY + h),
            XY(pixelX + (w \div 2), soilY + (h \div 2)),
            XY(pixelX + (w \div 2), soilY + (h \div 2) + GRID_CONFIG.soilHeight),
            XY(pixelX, soilY + h + GRID_CONFIG.soilHeight),
            COLORS.soil.sideDark),
         drawWavySoilSide(
            XY(pixelX - (w \div 2), soilY + (h \div 2)),
            XY(pixelX, soilY + h),
            XY(pixelX, soilY + h + GRID_CONFIG.soilHeight),
            XY(pixelX - (w \div 2), soilY + (h \div 2) + GRID_CONFIG.soilHeight),
            COLORS.soil.sideLight),
         drawWavyGrassSide(
            XY(pixelX, topPointY + h),
            XY(pixelX + (w \div 2), topPointY + (h \div 2)),
            XY(pixelX + (w \div 2), topPointY + (h \div 2) + GRID_CONFIG.grassHeight),
            XY(pixelX, topPointY + h + GRID_CONFIG.grassHeight),
            COLORS.grass.sideDark),
         drawWavyGrassSide(
            XY(pixelX - (w \div 2), topPointY + (h \div 2)),
            XY(pixelX, topPointY + h),
            XY(pixelX, topPointY + h + GRID_CONFIG.grassHeight),
            XY(pixelX - (w \div 2), topPointY + (h \div 2) + GRID_CONFIG.grassHeight),
            COLORS.grass.sideLight),
         drawPoly(
            <<XY(pixelX, topPointY),
              XY(pixelX + (w \div 2), topPointY + (h \div 2)),
              XY(pixelX, topPointY + h),
              XY(pixelX - (w \div 2), topPointY + (h \div 2))>>,
            COLORS.grass.top, COLORS.grass.gridStroke)>>
       \o Details(pos, opts)

(***************************************************************************)
(* grid.ts: calculateTreeDrawPosition.  treeScale and the members of the   *)
(* result are fractions [num, den] with den > 0; offsets.xOffset is a      *)
(* multiple of one half, xOffsetX2 is twice xOffset.  The code computes in  *)
(* doubles, which is exact when treeScale is a multiple of a power of 1/2.  *)
(***************************************************************************)
\* calculateTreeDrawPosition with xOffsetScaled added instead of subtracted.
calculateTreeDrawPositionOffsetAdded(pos, imageWidth, imageHeight, offsets, treeScale) ==
    LET n == treeScale.num
        d == treeScale.den
    IN [drawX |-> [num |-> 2 * d * pos.pixelX - imageWidth * n + offsets.xOffsetX2 * n,
                   den |-> 2 * d],
        drawY |-> [num |-> d * pos.pixelY - imageHeight * n + offsets.yPadding * n,
                   den |-> d],
        drawWidth |-> [num |-> imageWidth * n, den |-> d],
        drawHeight |-> [num |-> imageHeight * n, den |-> d]]

\* drawWidth = imageWidth * n / d, xOffsetScaled = xOffsetX2 * n / (2 * d):
\* drawX = pixelX - drawWidth / 2 - xOffsetScaled over 2 * d,
\* drawY = pixelY - drawHeight + yPaddingScaled over d.
calculateTreeDrawPosition(pos, imageWidth, imageHeight, offsets, treeScale) ==
    LET n == treeScale.num
        d == treeScale.den
    IN [drawX |-> [num |-> 2 * d * pos.pixelX - imageWidth * n - offsets.xOffsetX2 * n,
                   den |-> 2 * d],
        drawY |-> [num |-> d * pos.pixelY - imageHeight * n + offsets.yPadding * n,
                   den |-> d],
        drawWidth |-> [num |-> imageWidth * n, den |-> d],
        drawHeight |-> [num |-> imageHeight * n, den |-> d]]

(***************************************************************************)
(* The batch drivers: SingleGridGenerator.generateAll of                   *)
(* cache-gen/generate_image_cache.ts and VideoGenerator.generateAll.  Both *)
(* walk the registry entities in insertion order.  What a sprite generator *)
(* and the file and grid operations do is an input of every iteration:     *)
(* each may return or throw.                                               *)
(***************************************************************************)
entities ==
    <<"tree", "sunflower", "sakura", "cedar", "lavender", "pink_balls_tree",
      "maple", "weeping_willow">>

\* The try block of SingleGridGenerator.generateAll, lines 74-92: "thrown"
\* when an awaited call throws, else what it did.  result is what
\* generator.generate did, fileThrows whether copyFile or writeFile throws,
\* gridThrows whether generateSingleGrid throws, sampleExists the value of
\* existsSync(samplePath).
imageTry(result, fileThrows, gridThrows, sampleExists) ==
    IF result.throws THEN "thrown"
    ELSE IF result.imagePath
         THEN IF fileThrows \/ gridThrows THEN "thrown" ELSE "saved"
    ELSE IF result.imageBuffer
         THEN IF fileThrows \/ gridThrows THEN "thrown" ELSE "saved"
    ELSE IF sampleExists
         THEN IF gridThrows THEN "thrown" ELSE "saved"
    ELSE "no image"

\* The catch block of lines 93-101: the error is logged with console.error;
\* the fallback generateSingleGrid of line 99 is awaited outside any try, so
\* when it throws (fallbackThrows) the loop and generateAll end with its
\* error.
imageCatch(sampleExists, fallbackThrows) ==
    [errors |-> <<"Error generating">>, rejected |-> sampleExists /\ fallbackThrows]

\* One iteration of the loop of lines 71-102: the lines it writes with
\* console.error, and whether it ends generateAll with an error.
imageIteration(result, fileThrows, gridThrows, sampleExists, fallbackThrows) ==
    IF imageTry(result, fileThrows, gridThrows, sampleExists) = "thrown"
    THEN imageCatch(sampleExists, fallbackThrows)
    ELSE IF imageTry(result, fileThrows, gridThrows, sampleExists) = "no image"
    THEN [errors |-> <<"No image available">>, rejected |-> FALSE]
    ELSE [errors |-> <<>>, rejected |-> FALSE]

\* One iteration of the loop of VideoGenerator.generateAll, lines 55-80:
\* the whole body is inside the try, the catch only logs.  gridThrows is
\* whether generateGridVideo throws, fileThrows whether unlink does.
videoIteration(result, gridThrows, fileThrows) ==
    IF result.throws THEN [errors |-> <<"Error generating">>, rejected |-> FALSE]
    ELSE IF result.videoPath
         THEN IF gridThrows \/ fileThrows
              THEN [errors |-> <<"Error generating">>, rejected |-> FALSE]
              ELSE [errors |-> <<>>, rejected |-> FALSE]
    ELSE [errors |-> <<"No video generated">>, rejected |-> FALSE]

\* The report after an iteration on the entity of index i wrote errors.
Reported(rep, i, errors) ==
    rep \o [k \in DOMAIN errors |-> [entity |-> entities[i], log |-> errors[k]]]

(***************************************************************************)
(* Argument sets.                                                          *)
(***************************************************************************)
\* Arbitrary GridPosition values: any address, two different pixel centres.
SomePositions ==
    [gridX : 0..MaxCoord, gridY : 0..MaxCoord, pixelX : {0, 1}, pixelY : {0}]

SeqsUpTo(S, n) == UNION {[1..k -> S] : k \in 0..n}

\* canvasWidth arguments: the widths calculateCanvasDimensions returns, and an
\* odd width, whose half is not an integer.
CanvasWidths ==
    {calculateCanvasDimensions(n).width : n \in 1..MaxGridSize} \cup {1841}

\* filterName arguments: the type is FilterName, but any string can arrive at
\* run time: unknown names, and names of inherited members.
SomeNames ==
    FilterName \cup {"tropical", "", "None", "toString", "constructor", "__proto__"}

InputLabels == {"[out]", "[0:v]", ""}

OutputLabels == {"[filtered]", "[graded]", ""}

\* Pixels: every opaque colour over three channel values, pixels that are
\* fully or almost fully transparent, and a colour of HalfwayRoundedDown.
ChannelSamples == {0, 128, 255}

SomePixels ==
    [r : ChannelSamples, g : ChannelSamples, b : ChannelSamples, a : {255}]
    \cup {[r |-> 0, g |-> 0, b |-> 0, a |-> 0],
          [r |-> 255, g |-> 128, b |-> 0, a |-> 0],
          [r |-> 255, g |-> 0, b |-> 128, a |-> 1],
          [r |-> 8, g |-> 212, b |-> 120, a |-> 255]}

\* Sprite pixels: transparent, anti-aliased (alpha at the threshold, not
\* solid), and a dark and a light opaque colour.
Transparent == [r |-> 0, g |-> 0, b |-> 0, a |-> 0]

SpritePixels ==
    {Transparent,
     [r |-> 20, g |-> 20, b |-> 20, a |-> 245],
     [r |-> 40, g |-> 30, b |-> 20, a |-> 255],
     [r |-> 200, g |-> 220, b |-> 180, a |-> 255]}

\* Sprite pixels at an anti-aliased edge: solid with alpha below 255.  The
\* first two have the exact darkness 3444 / 5 in common.
NearOpaquePixels ==
    {Transparent,
     [r |-> 17, g |-> 17, b |-> 17, a |-> 246],
     [r |-> 22, g |-> 23, b |-> 23, a |-> 252],
     [r |-> 20, g |-> 20, b |-> 20, a |-> 255]}

AlphaImageSizes ==
    {wh \in (1..MaxAlphaArea) \X (1..MaxAlphaArea) : wh[1] * wh[2] <= MaxAlphaArea}

\* Image sizes: dimensions arbitrary but > 0, at most MaxArea pixels.
ImageSizes ==
    {wh \in (1..MaxArea) \X (1..MaxArea) : wh[1] * wh[2] <= MaxArea}

\* Tiles handed to drawIsoBlock: the positions of the grids of every size, on
\* the canvas calculateCanvasDimensions gives that size.
SomeTiles ==
    UNION {{generateGridPositions(n, calculateCanvasDimensions(n).width)[k] :
               k \in 1..(n * n)} : n \in 1..MaxGridSize}

\* DrawIsoBlockOptions: shadowWidth 0 stands for a width that is not given.
SomeOptions == [hasShadow : BOOLEAN, drawTufts : BOOLEAN, shadowWidth : {0, 150}]

\* Sprites handed to calculateTreeDrawPosition: small ones and the 480 x 480
\* sprite of the generators, with every anchor the detector can return for
\* the size, at the scales 1, 0.8 (the callers' scale), 0.5 and 1.5, on the
\* only tile of a 1 x 1 grid and on a tile of a 2 x 2 grid.
SpriteSides == (1..MaxSide) \cup {480}

TreeScales ==
    {[num |-> 1, den |-> 1], [num |-> 4, den |-> 5], [num |-> 1, den |-> 2],
     [num |-> 3, den |-> 2]}

SomeSprites ==
    {sp \in [pos : {generateGridPositions(1, 1440)[1], generateGridPositions(2, 1640)[2]},
             imageWidth : SpriteSides, imageHeight : SpriteSides,
             offsets : [xOffsetX2 : (-MaxSide)..MaxSide, yPadding : 0..(MaxSide - 1)],
             treeScale : TreeScales] :
        /\ sp.offsets.yPadding < sp.imageHeight
        /\ sp.offsets.xOffsetX2 + sp.imageWidth >= 0
        /\ sp.offsets.xOffsetX2 <= sp.imageWidth}

(***************************************************************************)
(* Actions: one per exported function.                                     *)
(***************************************************************************)
CalculateCanvasDimensions ==
    /\ pc = "start"
    /\ dims' = calculateCanvasDimensions(gridSize)
    /\ pc' = "calculateCanvasDimensions"
    /\ outcome' = "returned"
    /\ UNCHANGED <<gridSize, canvasWidth, positions, sorted>>
    /\ UNCHANGED <<catalogVars, rasterVars, detectVars>>
    /\ UNCHANGED <<tileVars, placeVars, batchVars>>

GenerateGridPositions ==
    /\ pc \in {"start", "calculateCanvasDimensions"}
    /\ \E cw \in CanvasWidths \cup
                 (IF pc = "calculateCanvasDimensions" THEN {dims.width} ELSE {}) :
          /\ canvasWidth' = cw
          /\ positions' = generateGridPositions(gridSize, cw)
    /\ pc' = "generateGridPositions"
    /\ outcome' = "returned"
    /\ UNCHANGED <<gridSize, dims, sorted>>
    /\ UNCHANGED <<catalogVars, rasterVars, detectVars>>
    /\ UNCHANGED <<tileVars, placeVars, batchVars>>

SortPositionsForRendering ==
    /\ pc \in {"positions", "generateGridPositions"}
    /\ sorted' = sortPositionsForRendering(positions)
    /\ pc' = "sortPositionsForRendering"
    /\ outcome' = "returned"
    /\ UNCHANGED <<gridSize, dims, canvasWidth, positions>>
    /\ UNCHANGED <<catalogVars, rasterVars, detectVars>>
    /\ UNCHANGED <<tileVars, placeVars, batchVars>>

GetFilter ==
    /\ pc = "start"
    /\ filter' = getFilter(filterName)
    /\ pc' = "getFilter"
    /\ outcome' = "returned"
    /\ UNCHANGED <<filterName, inputLabel, outputLabel, filterString>>
    /\ UNCHANGED <<gridVars, rasterVars, detectVars>>
    /\ UNCHANGED <<tileVars, placeVars, batchVars>>

GetFFmpegFilterString ==
    /\ pc \in {"start", "getFilter"}
    /\ filterString' = getFFmpegFilterString(filterName, inputLabel, outputLabel)
    /\ pc' = "getFFmpegFilterString"
    /\ outcome' = "returned"
    /\ UNCHANGED <<filterName, inputLabel, outputLabel, filter>>
    /\ UNCHANGED <<gridVars, rasterVars, detectVars>>
    /\ UNCHANGED <<tileVars, placeVars, batchVars>>

ApplyCanvasFilter ==
    /\ pc = "drawn"
    /\ LET res == applyCanvasFilter(canvas, filterName)
       IN /\ canvas' = res.data
          /\ outcome' = res.outcome
    /\ pc' = "applyCanvasFilter"
    /\ UNCHANGED <<drawn, catalogVars, gridVars, detectVars>>
    /\ UNCHANGED <<tileVars, placeVars, batchVars>>

DetectTreeContentPosition ==
    /\ pc = "image"
    /\ anchor' = detectTreeContentPosition(image)
    /\ pc' = "detectTreeContentPosition"
    /\ outcome' = "returned"
    /\ UNCHANGED <<image, gridVars, catalogVars, rasterVars>>
    /\ UNCHANGED <<tileVars, placeVars, batchVars>>

DrawIsoBlock ==
    /\ pc = "tile"
    /\ ops' = drawIsoBlock(tile, options)
    /\ pc' = "drawIsoBlock"
    /\ outcome' = "returned"
    /\ UNCHANGED <<tile, options>>
    /\ UNCHANGED <<gridVars, catalogVars, rasterVars, detectVars, placeVars, batchVars>>

\* What generator.generate can do: throw, or resolve to a GeneratorResult
\* with any of its optional fields present.
GenerateResults ==
    {[throws |-> TRUE, imagePath |-> FALSE, imageBuffer |-> FALSE, videoPath |-> FALSE]}
    \cup [throws : {FALSE}, imagePath : BOOLEAN, imageBuffer : BOOLEAN, videoPath : BOOLEAN]

\* generateAll up to the loop: ensureOutputDir either returns or throws
\* (mkdir), which ends generateAll before any entity is processed.
StartGenerateAll ==
    /\ pc = "generateAll"
    /\ \E mkdirThrows \in BOOLEAN :
          IF mkdirThrows
          THEN pc' = "rejected" /\ outcome' = "threw" /\ entity' = entity
          ELSE pc' = "loop" /\ outcome' = outcome /\ entity' = 1
    /\ UNCHANGED <<driver, report>>
    /\ UNCHANGED <<gridVars, catalogVars, rasterVars, detectVars, tileVars, placeVars>>

ProcessEntityImage ==
    /\ pc = "loop"
    /\ driver = "image"
    /\ entity <= Len(entities)
    /\ \E result \in GenerateResults,
          fileThrows, gridThrows, sampleExists, fallbackThrows \in BOOLEAN :
          LET done == imageIteration(result, fileThrows, gridThrows, sampleExists,
                                     fallbackThrows)
          IN /\ report' = Reported(report, entity, done.errors)
             /\ IF done.rejected
                THEN pc' = "rejected" /\ outcome' = "threw" /\ entity' = entity
                ELSE pc' = pc /\ outcome' = outcome /\ entity' = entity + 1
    /\ UNCHANGED driver
    /\ UNCHANGED <<gridVars, catalogVars, rasterVars, detectVars, tileVars, placeVars>>

ProcessEntityVideo ==
    /\ pc = "loop"
    /\ driver = "video"
    /\ entity <= Len(entities)
    /\ \E result \in GenerateResults, gridThrows, fileThrows \in BOOLEAN :
          LET done == videoIteration(result, gridThrows, fileThrows)
          IN /\ report' = Reported(report, entity, done.errors)
             /\ IF done.rejected
                THEN pc' = "rejected" /\ outcome' = "threw" /\ entity' = entity
                ELSE pc' = pc /\ outcome' = outcome /\ entity' = entity + 1
    /\ UNCHANGED driver
    /\ UNCHANGED <<gridVars, catalogVars, rasterVars, detectVars, tileVars, placeVars>>

\* The loop is over: generateAll logs completion and resolves.
FinishGenerateAll ==
    /\ pc = "loop"
    /\ entity > Len(entities)
    /\ pc' = "complete"
    /\ outcome' = "returned"
    /\ UNCHANGED <<driver, entity, report>>
    /\ UNCHANGED <<gridVars, catalogVars, rasterVars, detectVars, tileVars, placeVars>>

CalculateTreeDrawPosition ==
    /\ pc = "sprite"
    /\ rect' = calculateTreeDrawPosition(sprite.pos, sprite.imageWidth, sprite.imageHeight,
                                         sprite.offsets, sprite.treeScale)
    /\ pc' = "calculateTreeDrawPosition"
    /\ outcome' = "returned"
    /\ UNCHANGED sprite
    /\ UNCHANGED <<gridVars, catalogVars, rasterVars, detectVars, tileVars, batchVars>>

(***************************************************************************)
(* Specifications.                                                         *)
(***************************************************************************)
NoDims == [width |-> 0, height |-> 0]

GridIdle ==
    /\ gridSize = 0
    /\ dims = NoDims
    /\ canvasWidth = 0
    /\ positions = <<>>
    /\ sorted = <<>>

CatalogIdle ==
    /\ filterName = "none"
    /\ inputLabel = "[out]"
    /\ outputLabel = "[filtered]"
    /\ filter = Undefined
    /\ filterString = ""

RasterIdle ==
    /\ drawn = <<>>
    /\ canvas = <<>>

NoAnchor == [xOffsetX2 |-> 0, yPadding |-> 0, contentWidth |-> 0]

NoImage == [width |-> 0, height |-> 0, data |-> <<>>]

DetectIdle ==
    /\ image = NoImage
    /\ anchor = NoAnchor

NoTile == [gridX |-> 0, gridY |-> 0, pixelX |-> 0, pixelY |-> 0]

NoOptions == [hasShadow |-> FALSE, drawTufts |-> FALSE, shadowWidth |-> 0]

TileIdle ==
    /\ tile = NoTile
    /\ options = NoOptions
    /\ ops = <<>>

NoSprite ==
    [pos |-> NoTile, imageWidth |-> 0, imageHeight |-> 0,
     offsets |-> [xOffsetX2 |-> 0, yPadding |-> 0], treeScale |-> [num |-> 0, den |-> 1]]

NoRect ==
    [drawX |-> [num |-> 0, den |-> 1], drawY |-> [num |-> 0, den |-> 1],
     drawWidth |-> [num |-> 0, den |-> 1], drawHeight |-> [num |-> 0, den |-> 1]]

PlaceIdle ==
    /\ sprite = NoSprite
    /\ rect = NoRect

BatchIdle ==
    /\ driver = "none"
    /\ entity = 0
    /\ report = <<>>

\* PaintOrderer alone, on arbitrary sequences of GridPosition.
InitOrder ==
    /\ pc = "positions"
    /\ outcome = "none"
    /\ gridSize = 0
    /\ dims = NoDims
    /\ canvasWidth = 0
    /\ positions \in SeqsUpTo(SomePositions, MaxLen)
    /\ sorted = <<>>
    /\ CatalogIdle
    /\ RasterIdle
    /\ DetectIdle
    /\ TileIdle
    /\ PlaceIdle
    /\ BatchIdle

NextOrder == SortPositionsForRendering

SpecOrder == InitOrder /\ [][NextOrder]_vars

\* GridGeometry followed by PaintOrderer, as the renderer calls them.
InitGrid ==
    /\ pc = "start"
    /\ outcome = "none"
    /\ gridSize \in -2..MaxGridSize
    /\ dims = NoDims
    /\ canvasWidth = 0
    /\ positions = <<>>
    /\ sorted = <<>>
    /\ CatalogIdle
    /\ RasterIdle
    /\ DetectIdle
    /\ TileIdle
    /\ PlaceIdle
    /\ BatchIdle

NextGrid ==
    \/ CalculateCanvasDimensions
    \/ GenerateGridPositions
    \/ SortPositionsForRendering

SpecGrid == InitGrid /\ [][NextGrid]_vars

\* The catalog lookups of FilterEngine.
InitCatalog ==
    /\ pc = "start"
    /\ outcome = "none"
    /\ GridIdle
    /\ filterName \in SomeNames
    /\ inputLabel \in InputLabels
    /\ outputLabel \in OutputLabels
    /\ filter = Undefined
    /\ filterString = ""
    /\ RasterIdle
    /\ DetectIdle
    /\ TileIdle
    /\ PlaceIdle
    /\ BatchIdle

NextCatalog ==
    \/ GetFilter
    \/ GetFFmpegFilterString

SpecCatalog == InitCatalog /\ [][NextCatalog]_vars

\* The raster transform of FilterEngine on a drawn canvas.
InitRaster ==
    /\ pc = "drawn"
    /\ outcome = "none"
    /\ GridIdle
    /\ filterName \in FilterName \cup {"tropical", "toString"}
    /\ inputLabel = "[out]"
    /\ outputLabel = "[filtered]"
    /\ filter = Undefined
    /\ filterString = ""
    /\ drawn \in SeqsUpTo(SomePixels, MaxPixels)
    /\ canvas = drawn
    /\ DetectIdle
    /\ TileIdle
    /\ PlaceIdle
    /\ BatchIdle

NextRaster == ApplyCanvasFilter

SpecRaster == InitRaster /\ [][NextRaster]_vars

\* ContentAnchorDetector on a decoded sprite.
InitDetect ==
    /\ pc = "image"
    /\ outcome = "none"
    /\ GridIdle
    /\ CatalogIdle
    /\ RasterIdle
    /\ \E wh \in ImageSizes :
          \E d \in [1..(wh[1] * wh[2]) -> SpritePixels] :
              image = [width |-> wh[1], height |-> wh[2], data |-> d]
    /\ anchor = NoAnchor
    /\ TileIdle
    /\ PlaceIdle
    /\ BatchIdle

NextDetect == DetectTreeContentPosition

SpecDetect == InitDetect /\ [][NextDetect]_vars

\* ContentAnchorDetector on a decoded sprite with nearly opaque pixels.
InitDetectAlpha ==
    /\ pc = "image"
    /\ outcome = "none"
    /\ GridIdle
    /\ CatalogIdle
    /\ RasterIdle
    /\ \E wh \in AlphaImageSizes :
          \E d \in [1..(wh[1] * wh[2]) -> NearOpaquePixels] :
              image = [width |-> wh[1], height |-> wh[2], data |-> d]
    /\ anchor = NoAnchor
    /\ TileIdle
    /\ PlaceIdle
    /\ BatchIdle

NextDetectAlpha == DetectTreeContentPosition

SpecDetectAlpha == InitDetectAlpha /\ [][NextDetectAlpha]_vars

\* TileRenderer on one tile.
InitTile ==
    /\ pc = "tile"
    /\ outcome = "none"
    /\ GridIdle
    /\ CatalogIdle
    /\ RasterIdle
    /\ DetectIdle
    /\ tile \in SomeTiles
    /\ options \in SomeOptions
    /\ ops = <<>>
    /\ PlaceIdle
    /\ BatchIdle

NextTile == DrawIsoBlock

SpecTile == InitTile /\ [][NextTile]_vars

\* Sprite placement on a tile.
InitPlace ==
    /\ pc = "sprite"
    /\ outcome = "none"
    /\ GridIdle
    /\ CatalogIdle
    /\ RasterIdle
    /\ DetectIdle
    /\ TileIdle
    /\ sprite \in SomeSprites
    /\ rect = NoRect
    /\ BatchIdle

NextPlace == CalculateTreeDrawPosition

SpecPlace == InitPlace /\ [][NextPlace]_vars

\* A batch driver at the call of generateAll.
InitBatch ==
    /\ pc = "generateAll"
    /\ outcome = "none"
    /\ GridIdle
    /\ CatalogIdle
    /\ RasterIdle
    /\ DetectIdle
    /\ TileIdle
    /\ PlaceIdle
    /\ driver \in {"image", "video"}
    /\ entity = 0
    /\ report = <<>>

NextBatch ==
    \/ StartGenerateAll
    \/ ProcessEntityImage
    \/ ProcessEntityVideo
    \/ FinishGenerateAll

SpecBatch == InitBatch /\ [][NextBatch]_vars

(***************************************************************************)
(* Claims about PaintOrderer (SpecOrder).                                  *)
(***************************************************************************)
PaintKey(p) == p.gridX + p.gridY

KeysOf(ps) == {PaintKey(ps[i]) : i \in DOMAIN ps}

WithKey(ps, k) == LET HasKey(p) == PaintKey(p) = k IN SelectSeq(ps, HasKey)

\* C1: the sequence returned by sortPositionsForRendering is non-decreasing in
\* gridX + gridY and, for every key, holds exactly the input's positions with
\* that key in the input's order (so it is a permutation of the input, and
\* positions with equal keys keep their relative order).
C1_StableAscendingOrder ==
    pc = "sortPositionsForRendering" =>
        /\ Len(sorted) = Len(positions)
        /\ \A i, j \in DOMAIN sorted :
              i < j => PaintKey(sorted[i]) <= PaintKey(sorted[j])
        /\ \A k \in KeysOf(positions) \cup KeysOf(sorted) :
              WithKey(sorted, k) = WithKey(positions, k)

\* C1 witness: a sorted input that was out of order and held two different
\* positions with the same key.
C1_Witness ==
    /\ pc = "sortPositionsForRendering"
    /\ \E i, j \in DOMAIN positions :
          i < j /\ PaintKey(positions[i]) > PaintKey(positions[j])
    /\ \E i, j \in DOMAIN positions :
          /\ i < j
          /\ PaintKey(positions[i]) = PaintKey(positions[j])
          /\ positions[i] # positions[j]

(***************************************************************************)
(* Claims about GridGeometry (SpecGrid).                                   *)
(***************************************************************************)
GeometryCallDone == pc \in {"calculateCanvasDimensions", "generateGridPositions"}

ConfigurationError ==
    \/ gridSize <= 0
    \/ GRID_CONFIG.tileWidth <= 0
    \/ GRID_CONFIG.grassHeight <= 0
    \/ GRID_CONFIG.soilHeight <= 0

\* C6: a call of calculateCanvasDimensions or generateGridPositions with a
\* configuration error (gridSize <= 0, or a tile dimension <= 0) ends in a
\* failure, it does not return a canvas size or a position sequence.
C6_ConfigurationErrorsRejected ==
    (GeometryCallDone /\ ConfigurationError) => outcome = "threw"

Addresses(n) == (0..(n - 1)) \X (0..(n - 1))

\* C7: for gridSize > 0 generateGridPositions returns gridSize^2 positions,
\* exactly one for each address of [0,gridSize)^2, and no two positions share
\* the pixel centre (pixelX, pixelY).
C7_PositionsBijective ==
    (pc = "generateGridPositions" /\ gridSize > 0) =>
        /\ Len(positions) = gridSize * gridSize
        /\ \A a \in Addresses(gridSize) :
              Cardinality({k \in DOMAIN positions :
                  <<positions[k].gridX, positions[k].gridY>> = a}) = 1
        /\ \A i, j \in DOMAIN positions :
              i # j => <<positions[i].pixelX, positions[i].pixelY>>
                       # <<positions[j].pixelX, positions[j].pixelY>>

\* C7 witness: a grid of at least 2 x 2 tiles generated for an odd canvas
\* width, so that pixelX is rounded.
C7_Witness ==
    /\ pc = "generateGridPositions"
    /\ gridSize >= 2
    /\ canvasWidth % 2 = 1
    /\ Len(positions) >= 4

\* m = round(n / d), rounding halves up: m - 1/2 <= n/d < m + 1/2.
IsRounded(m, n, d) == 2 * d * m - d <= 2 * n /\ 2 * n < 2 * d * m + d

fixedTopMargin == 600

\* C8: every position returned by generateGridPositions(gridSize, canvasWidth)
\* has pixelX = round(canvasWidth/2 + (x-y)*tileWidth/2) and
\* pixelY = round(600 + (x+y)*tileWidth/4 + tileWidth/4), every address of
\* [0,gridSize)^2 has a position, and with tileWidth 400, gridSize 1 and
\* canvasWidth 1840 the only position is (0, 0) at pixel (920, 700).
C8_IsometricProjection ==
    pc = "generateGridPositions" =>
        /\ \A k \in DOMAIN positions :
              LET p == positions[k]
                  tw == GRID_CONFIG.tileWidth
              IN /\ IsRounded(p.pixelX, canvasWidth + (p.gridX - p.gridY) * tw, 2)
                 /\ IsRounded(p.pixelY,
                        4 * fixedTopMargin + (p.gridX + p.gridY) * tw + tw, 4)
        /\ \A a \in Addresses(gridSize) :
              \E k \in DOMAIN positions :
                  <<positions[k].gridX, positions[k].gridY>> = a
        /\ (gridSize = 1 /\ canvasWidth = 1840 /\ GRID_CONFIG.tileWidth = 400) =>
              positions = <<[gridX |-> 0, gridY |-> 0, pixelX |-> 920, pixelY |-> 700]>>

\* C8 witness: the concrete scenario, gridSize 1 on the 1840 wide canvas.
C8_Witness ==
    /\ pc = "generateGridPositions"
    /\ gridSize = 1
    /\ canvasWidth = 1840
    /\ Len(positions) = 1


fixedHorizontalMargin == 400

fixedVerticalMargin == 800

HorizontalExtent(n) == (2 * n) * (GRID_CONFIG.tileWidth \div 2) + fixedHorizontalMargin

VerticalExtent(n) ==
    n * (GRID_CONFIG.tileWidth \div 2)
    + 2 * (GRID_CONFIG.soilHeight + GRID_CONFIG.grassHeight) + fixedVerticalMargin

\* The prism of the tile at p lies inside the canvas of size d.
PrismInside(p, d) ==
    LET tw == GRID_CONFIG.tileWidth
    IN /\ 0 <= p.pixelX - (tw \div 2)
       /\ p.pixelX + (tw \div 2) <= d.width
       /\ 0 <= p.pixelY - (tw \div 4)
       /\ p.pixelY + (tw \div 4) + GRID_CONFIG.grassHeight + GRID_CONFIG.soilHeight
              <= d.height

\* C14: for gridSize > 0 calculateCanvasDimensions returns a square canvas
\* whose side is the larger of the horizontal and the vertical extent (1840
\* for gridSize 3), and the prism of every position generateGridPositions
\* returns for gridSize and that canvas width lies inside the canvas.
C14_DiamondNeverClipped ==
    (gridSize > 0 /\ pc # "start") =>
        /\ dims # NoDims =>
              /\ dims.width = dims.height
              /\ dims.width >= HorizontalExtent(gridSize)
              /\ dims.width >= VerticalExtent(gridSize)
              /\ dims.width \in {HorizontalExtent(gridSize), VerticalExtent(gridSize)}
              /\ gridSize = 3 => dims.width = 1840
        /\ (pc = "generateGridPositions" /\ dims # NoDims /\ canvasWidth = dims.width) =>
              \A k \in DOMAIN positions : PrismInside(positions[k], dims)

\* C14 witness: a grid wide enough for the horizontal extent to be the larger
\* one, generated on the canvas calculateCanvasDimensions returned for it.
C14_Witness ==
    /\ pc = "generateGridPositions"
    /\ gridSize > 0
    /\ dims # NoDims
    /\ canvasWidth = dims.width
    /\ HorizontalExtent(gridSize) > VerticalExtent(gridSize)
    /\ Len(positions) = gridSize * gridSize

Distance(a, b) == IF a >= b THEN a - b ELSE b - a

\* The footprints of the prisms at p and q (width tileWidth, from
\* tileWidth / 4 above the centre to tileWidth / 4 + grassHeight + soilHeight
\* below it) overlap in their interiors.
FootprintsOverlap(p, q) ==
    /\ Distance(p.pixelX, q.pixelX) < GRID_CONFIG.tileWidth
    /\ Distance(p.pixelY, q.pixelY)
          < (GRID_CONFIG.tileWidth \div 2) + GRID_CONFIG.grassHeight + GRID_CONFIG.soilHeight

\* C18: in the paint order of a generated grid, two distinct tiles with equal
\* gridX + gridY have the same pixelY and pixelX values at least tileWidth
\* apart, so their footprints do not overlap; and of two tiles whose
\* footprints overlap, the one with the smaller pixelY comes first.
C18_KeySufficesForOcclusion ==
    (pc = "sortPositionsForRendering" /\ gridSize > 0) =>
        \A i, j \in DOMAIN sorted :
            i # j =>
                /\ PaintKey(sorted[i]) = PaintKey(sorted[j]) =>
                      /\ sorted[i].pixelY = sorted[j].pixelY
                      /\ Distance(sorted[i].pixelX, sorted[j].pixelX)
                            >= GRID_CONFIG.tileWidth
                      /\ ~FootprintsOverlap(sorted[i], sorted[j])
                /\ FootprintsOverlap(sorted[i], sorted[j]) =>
                      /\ sorted[i].pixelY # sorted[j].pixelY
                      /\ sorted[i].pixelY < sorted[j].pixelY => i < j

\* C18 witness: a grid the sort had to reorder, with tiles of equal key and
\* tiles whose footprints overlap.
C18_Witness ==
    /\ pc = "sortPositionsForRendering"
    /\ gridSize > 0
    /\ sorted # positions
    /\ \E i, j \in DOMAIN sorted :
          i # j /\ PaintKey(sorted[i]) = PaintKey(sorted[j])
    /\ \E i, j \in DOMAIN sorted :
          i # j /\ FootprintsOverlap(sorted[i], sorted[j])

(***************************************************************************)
(* Claims about TileRenderer (SpecTile).                                   *)
(***************************************************************************)
\* The side of the tile a wavy face is on: the wavy edge of a right face ends
\* right of the tile's centre, that of a left face starts left of it.
SideOf(op, pos) == IF op.edge.endX > pos.pixelX THEN "right" ELSE "left"

IsFace(op, pos, call, side) ==
    op.call = call /\ SideOf(op, pos) = side

\* The seam of a side, from the tile's geometry: it runs between the bottom
\* corner and the right corner of the top face (between the left corner and
\* the bottom corner on the left side), lowered by grassHeight.
SeamOf(pos, side) ==
    LET halfWidth == GRID_CONFIG.tileWidth \div 2
        halfHeight == GRID_CONFIG.tileWidth \div 4
        low == pos.pixelY + halfHeight + GRID_CONFIG.grassHeight
        high == pos.pixelY + GRID_CONFIG.grassHeight
    IN IF side = "right"
       THEN [startX |-> pos.pixelX, startY |-> low,
             endX |-> pos.pixelX + halfWidth, endY |-> high]
       ELSE [startX |-> pos.pixelX - halfWidth, startY |-> high,
             endX |-> pos.pixelX, endY |-> low]

\* C11: on both sides of every tile drawn by drawIsoBlock there is one grass
\* face and one soil face; the endpoints (in the same order, those of the
\* side's seam), the amplitude 12, the frequency 2 and the segment count 16
\* handed to generateWavyEdge for the grass face's bottom edge are those
\* handed to it for the soil face's top edge, and the two point sequences
\* have 17 points and are equal coordinate for coordinate.
C11_SeamContinuity ==
    pc = "drawIsoBlock" =>
        \A side \in {"right", "left"} :
            /\ \E g, s \in DOMAIN ops :
                  /\ IsFace(ops[g], tile, "drawWavyGrassSide", side)
                  /\ IsFace(ops[s], tile, "drawWavySoilSide", side)
            /\ \A g, s \in DOMAIN ops :
                  (/\ ops[g].call = "drawWavyGrassSide"
                   /\ ops[s].call = "drawWavySoilSide"
                   /\ SideOf(ops[g], tile) = side
                   /\ SideOf(ops[s], tile) = side) =>
                      /\ ops[g].edge = ops[s].edge
                      /\ ops[g].edge.startX = SeamOf(tile, side).startX
                      /\ ops[g].edge.startY = SeamOf(tile, side).startY
                      /\ ops[g].edge.endX = SeamOf(tile, side).endX
                      /\ ops[g].edge.endY = SeamOf(tile, side).endY
                      /\ ops[g].edge.waveAmplitude = 3 * SCALE
                      /\ ops[g].edge.waveFrequency = 2
                      /\ ops[g].edge.segments = 16
                      /\ Len(ops[g].wavy) = 17
                      /\ Len(ops[s].wavy) = 17
                      /\ \A k \in 1..17 : ops[g].wavy[k] = ops[s].wavy[k]

\* C11 witness: a drawn tile that is not the first of its grid, with seams
\* that are displaced from the straight edge at some point.
C11_Witness ==
    /\ pc = "drawIsoBlock"
    /\ tile.gridX + tile.gridY > 0
    /\ \A side \in {"right", "left"} :
          \E g \in DOMAIN ops :
              /\ IsFace(ops[g], tile, "drawWavyGrassSide", side)
              /\ \E k \in DOMAIN ops[g].wavy :
                    ops[g].wavy[k].x.num # 0 /\ ops[g].wavy[k].y.num # 0

\* The piece of the tile a drawing call paints.
PieceOf(op, pos) ==
    CASE op.call = "drawWavySoilSide" -> <<SideOf(op, pos), "soil">>
      [] op.call = "drawWavyGrassSide" -> <<SideOf(op, pos), "grass">>
      [] op.call = "drawPoly" -> <<"top", "face">>
      [] op.call = "drawShadow" -> <<"shadow", "ellipse">>
      [] op.call = "drawTuft" -> <<"tuft", "stroke">>

Pieces(drawing, pos) == [k \in DOMAIN drawing |-> PieceOf(drawing[k], pos)]

BaseFaces ==
    <<<<"right", "soil">>, <<"left", "soil">>, <<"right", "grass">>,
      <<"left", "grass">>, <<"top", "face">>>>

\* C17: drawIsoBlock draws right soil face, left soil face, right grass
\* face, left grass face and top face, in this order, on every call; then the
\* shadow exactly when hasShadow; then nothing or a tuft, and a tuft only
\* when drawTufts is set and hasShadow is not.
C17_PaintOrderPerTile ==
    pc = "drawIsoBlock" =>
        LET pieces == Pieces(ops, tile)
            shadow == IF options.hasShadow THEN <<<<"shadow", "ellipse">>>> ELSE <<>>
        IN /\ \/ pieces = BaseFaces \o shadow
              \/ pieces = BaseFaces \o shadow \o <<<<"tuft", "stroke">>>>
           /\ (\E k \in DOMAIN pieces : pieces[k][1] = "tuft") =>
                 options.drawTufts /\ ~options.hasShadow
           /\ ~(/\ \E k \in DOMAIN pieces : pieces[k][1] = "tuft"
                /\ \E k \in DOMAIN pieces : pieces[k][1] = "shadow")

\* C17 witness: both kinds of tile have been drawn with drawTufts set: this
\* one without a shadow got its tuft as the sixth and last call.
C17_Witness ==
    /\ pc = "drawIsoBlock"
    /\ options.drawTufts
    /\ ~options.hasShadow
    /\ Len(ops) = 6
    /\ ops[6].call = "drawTuft"

(***************************************************************************)
(* Claims about sprite placement (SpecPlace).                              *)
(***************************************************************************)
\* The fractions a and b are the same number.
SameNumber(a, b) == a.num * b.den = b.num * a.den

\* a + b for fractions.
Sum(a, b) == [num |-> a.num * b.den + b.num * a.den, den |-> a.den * b.den]

\* halves * s / 2 for the scale s.
ScaledHalves(halves, s) == [num |-> halves * s.num, den |-> 2 * s.den]

Whole(n) == [num |-> n, den |-> 1]

Bytes == 0..255

\* Some channel of the pixel is below 0 or above 255 when the clamp of
\* lines 290-292 is reached.
OutOfRangeBeforeClamp(pixel, adj) ==
    LET px == Adjusted(pixel, adj)
        Out(c) == BigNegative(c) \/ BigLess(Const(px, 255), c)
    IN pixel.a # 0 /\ (Out(px.r) \/ Out(px.g) \/ Out(px.b))

\* C2: after applyCanvasFilter with a preset of the catalog, every channel
\* sample of every pixel of the canvas is an integer in [0,255].
C2_FilterBounds ==
    (pc = "applyCanvasFilter" /\ filterName \in FilterName) =>
        \A i \in DOMAIN canvas :
            /\ canvas[i].r \in Bytes
            /\ canvas[i].g \in Bytes
            /\ canvas[i].b \in Bytes
            /\ canvas[i].a \in Bytes

\* C2 witness: a filtered pixel of which an intermediate value had left
\* [0,255] before the clamp.
C2_Witness ==
    /\ pc = "applyCanvasFilter"
    /\ filterName \in FilterName \ {"none"}
    /\ \E i \in DOMAIN drawn :
          OutOfRangeBeforeClamp(drawn[i], FILTERS[filterName].canvasAdjustments)

\* C3: applyCanvasFilter with 'none' returns and leaves every byte of every
\* pixel of the canvas as it was drawn.
C3_FilterIdentity ==
    (pc = "applyCanvasFilter" /\ filterName = "none") =>
        outcome = "returned" /\ canvas = drawn

\* C3 witness: 'none' applied to a canvas with a pixel that is not
\* transparent.
C3_Witness ==
    /\ pc = "applyCanvasFilter"
    /\ filterName = "none"
    /\ \E i \in DOMAIN drawn : drawn[i].a # 0 /\ drawn[i].r # drawn[i].b

\* The reference pipeline of steps (1) to (5) in exact arithmetic, every step
\* applied (a step with a neutral parameter changes nothing).  The result is
\* the three channels over the denominator 10^11 * 255 * (259 - contrast).
\* With clampShift the channels are limited after step (1) as far as named
\* there: r and g to at most 255 and b to at least 0 for a warm shift, r to at
\* least 0 and b to at most 255 for a cool one.
ReferenceDen(adj) == <<100, 1000, 100, 100, 255 * (259 - adj.contrast), 100>>

Reference(pixel, adj, clampShift) ==
    LET t == IF "temperature" \in DOMAIN adj THEN adj.temperature ELSE 0
        overlay == IF "colorOverlay" \in DOMAIN adj THEN adj.colorOverlay
                   ELSE [r |-> 0, g |-> 0, b |-> 0, opacityPct |-> 0]
        \* (1) in hundredths
        r0 == 100 * pixel.r + (IF t > 0 THEN 30 * t ELSE 20 * t)
        g0 == 100 * pixel.g + (IF t > 0 THEN 10 * t ELSE 0)
        b0 == 100 * pixel.b - (IF t > 0 THEN 20 * t ELSE 30 * t)
        r1 == IF ~clampShift THEN r0 ELSE IF t > 0 THEN Min(25500, r0) ELSE Max(0, r0)
        g1 == IF clampShift /\ t > 0 THEN Min(25500, g0) ELSE g0
        b1 == IF ~clampShift THEN b0 ELSE IF t > 0 THEN Max(0, b0) ELSE Min(25500, b0)
        \* (2) luma over 10^5, channels over 10^7
        luma == 299 * r1 + 587 * g1 + 114 * b1
        Saturated(c) ==
            BigAdd(BigMul(BigOf(luma), 100),
                   BigMul(BigOf(1000 * c - luma), adj.saturationPct))
        \* (3) over 10^9
        Brightened(c) ==
            BigAdd(BigMul(c, 100), BigMulAll(BigOf(255 * adj.brightness), <<1000, 1000, 10>>))
        \* (4) over 10^9 * div
        gainNum == 259 * (adj.contrast + 255)
        gainDiv == 255 * (259 - adj.contrast)
        Mid(factors) == BigMulAll(BigOf(128), factors)
        Contrasted(c) ==
            BigAdd(BigMul(BigSub(c, Mid(<<1000, 1000, 1000>>)), gainNum),
                   Mid(<<1000, 1000, 1000, gainDiv>>))
        \* (5) over 10^11 * div
        Blended(c, oc) ==
            BigAdd(BigMul(c, 100 - overlay.opacityPct),
                   BigMulAll(BigOf(oc * overlay.opacityPct), <<1000, 1000, 1000, gainDiv>>))
        Graded(c, oc) == Blended(Contrasted(Brightened(Saturated(c))), oc)
    IN [r |-> Graded(r1, overlay.r), g |-> Graded(g1, overlay.g),
        b |-> Graded(b1, overlay.b)]

BigIsZero(a) == \A i \in DOMAIN a : a[i] = 0

\* Step (6): byte is the value c over den, clamped to [0,255] and rounded to
\* a nearest integer; a value halfway between two integers has two of them.
IsClampedNearest(byte, c, den) ==
    LET up == BigRound(c, den)
        one == BigMulAll(BigOf(1), den)
        halfway == BigIsZero(BigSub(BigAdd(BigMul(c, 2), one),
                                    BigMulAll(BigOf(2 * up), den)))
    IN byte = Clamp(up) \/ (halfway /\ byte = Clamp(up - 1))

MatchesReference(before, after, adj, clampShift) ==
    LET ref == Reference(before, adj, clampShift)
        den == ReferenceDen(adj)
    IN /\ IsClampedNearest(after.r, ref.r, den)
       /\ IsClampedNearest(after.g, ref.g, den)
       /\ IsClampedNearest(after.b, ref.b, den)

\* C12: for every pixel with non-zero alpha and every preset of the catalog,
\* the R, G, B written by applyCanvasFilter are the result of temperature
\* shift, saturation about luma, brightness, contrast gain about 128 and
\* overlay blend, in this order and without any clamping, then clamped to
\* [0,255] and rounded to the nearest integer.
C12_PipelineClampsOnlyLast ==
    (pc = "applyCanvasFilter" /\ filterName \in FilterName) =>
        \A i \in DOMAIN drawn :
            drawn[i].a # 0 =>
                MatchesReference(drawn[i], canvas[i],
                                 FILTERS[filterName].canvasAdjustments, FALSE)

\* C12 as amended: the same pipeline, in which step (1) also limits the
\* shifted channels to the side they were shifted to (warm: r and g at most
\* 255, b at least 0; cool: r at least 0, b at most 255), and in which a
\* value halfway between two integers rounds to either of them.
C12_PipelineClampsShift ==
    (pc = "applyCanvasFilter" /\ filterName \in FilterName) =>
        \A i \in DOMAIN drawn :
            drawn[i].a # 0 =>
                MatchesReference(drawn[i], canvas[i],
                                 FILTERS[filterName].canvasAdjustments, TRUE)

\* C12 witness: a graded pixel whose bytes are not those of the pipeline
\* without the limits of step (1).
C12_Witness ==
    /\ pc = "applyCanvasFilter"
    /\ filterName \in FilterName \ {"none"}
    /\ \E i \in DOMAIN drawn :
          /\ drawn[i].a # 0
          /\ canvas[i] # drawn[i]
          /\ ~MatchesReference(drawn[i], canvas[i],
                               FILTERS[filterName].canvasAdjustments, FALSE)

(***************************************************************************)
(* Claims about FilterEngine's catalog (SpecCatalog).                      *)
(***************************************************************************)
\* C4: getFilter returns for every name: the preset of that name for the
\* eight catalog names, the identity preset `none` for every other string.
C4_GetFilterNeverFails ==
    pc = "getFilter" =>
        /\ outcome = "returned"
        /\ filterName \in FilterName =>
              filter = FILTERS[filterName] /\ filter.name = filterName
        /\ filterName \notin FilterName => filter = FILTERS.none

\* C5: getFFmpegFilterString returns inputLabel, the preset's fragment and
\* outputLabel, in this order, for the seven catalog names other than `none`,
\* which is never the empty string, and the empty string for `none` and for
\* every name outside the catalog.
C5_FilterGraphString ==
    pc = "getFFmpegFilterString" =>
        IF filterName \in FilterName \ {"none"}
        THEN /\ filterString = inputLabel \o FILTERS[filterName].ffmpegFilter \o outputLabel
             /\ filterString # ""
        ELSE filterString = ""

\* C5 witness: the string of a graded preset between labels that are not the
\* defaults.
C5_Witness ==
    /\ pc = "getFFmpegFilterString"
    /\ filterName = "sepia"
    /\ inputLabel = "[0:v]"
    /\ outputLabel = "[graded]"
    /\ filterString # ""


(***************************************************************************)
(* Claims about ContentAnchorDetector (SpecDetect).                        *)
(***************************************************************************)
Rows(img) == 0..(img.height - 1)

Columns(img) == 0..(img.width - 1)

OpaqueColours == {p \in SpritePixels : p.a = 255}

\* The image is fully transparent except for the rectangle of rows r0..r1
\* and columns c0..c1, every pixel of which is the opaque pixel colour.
IsRectangle(img, r0, r1, c0, c1, colour) ==
    /\ r0 <= r1
    /\ c0 <= c1
    /\ \A y \in Rows(img), x \in Columns(img) :
          PixelAt(img, x, y) =
              IF r0 <= y /\ y <= r1 /\ c0 <= x /\ x <= c1 THEN colour ELSE Transparent

SolidRows(img) == {y \in Rows(img) : \E x \in Columns(img) : PixelAt(img, x, y).a > 245}

\* The rows the scan of lines 100-130 examines: from the bottom row up to
\* the row at which the scan stops, which is the row that brings the number
\* of candidate rows above 30% of the height, or row 0.
ScannedRows(img) ==
    {y \in Rows(img) :
        10 * Cardinality({z \in SolidRows(img) : z > y}) <= 3 * img.height}

\* C10: the detector returns, never fails; it returns the zero anchor for an
\* image without a pixel of alpha above 245, and an anchor with
\* contentWidth >= 1 and yPadding >= 0 for an image with such a pixel in a
\* scanned row.
C10_EmptySpriteZeroAnchor ==
    pc = "detectTreeContentPosition" =>
        /\ outcome = "returned"
        /\ SolidRows(image) = {} =>
              anchor = [xOffsetX2 |-> 0, yPadding |-> 0, contentWidth |-> 0]
        /\ SolidRows(image) \cap ScannedRows(image) # {} =>
              anchor.contentWidth >= 1 /\ anchor.yPadding >= 0

\* C10 witness: an image without a solid pixel that is not empty: it holds
\* a pixel with alpha 245.
C10_Witness ==
    /\ pc = "detectTreeContentPosition"
    /\ SolidRows(image) = {}
    /\ \E i \in DOMAIN image.data : image.data[i].a = 245
    /\ anchor.contentWidth = 0

\* A row of the bottom 30% of the image: its distance from the bottom row is
\* at most 30% of the height.
InBottomBand(img, y) == 10 * (img.height - 1 - y) <= 3 * img.height

\* C15: the detector is restricted to the bottom 30% of the rows: the
\* returned yPadding never exceeds 30% of the height, and an image whose
\* solid pixels all lie above the bottom 30% of the rows yields the zero
\* anchor.
C15_ScanWithinBottomBand ==
    pc = "detectTreeContentPosition" =>
        /\ 10 * anchor.yPadding <= 3 * image.height
        /\ (\A y \in SolidRows(image) : ~InBottomBand(image, y)) =>
              anchor = [xOffsetX2 |-> 0, yPadding |-> 0, contentWidth |-> 0]

\* The rows the detector collects as candidates.
ScannedCandidates(img) == SolidRows(img) \cap ScannedRows(img)

\* The row the returned anchor stands on.
AnchorRow == image.height - 1 - anchor.yPadding

\* The sum of (765 - (r+g+b)) * alpha over the solid pixels of row y in the
\* columns below x: 255 times the row's exact total darkness.
RECURSIVE WeightBelow(_, _, _)
WeightBelow(img, y, x) ==
    IF x = 0 THEN 0
    ELSE WeightBelow(img, y, x - 1)
         + (IF PixelAt(img, x - 1, y).a > 245
            THEN (765 - (PixelAt(img, x - 1, y).r + PixelAt(img, x - 1, y).g
                         + PixelAt(img, x - 1, y).b)) * PixelAt(img, x - 1, y).a
            ELSE 0)

SolidCount(img, y) == Cardinality({x \in Columns(img) : PixelAt(img, x, y).a > 245})

\* The exact average darkness of row y is below that of row z.
MeanBelow(img, y, z) ==
    WeightBelow(img, y, img.width) * SolidCount(img, z)
        < WeightBelow(img, z, img.width) * SolidCount(img, y)

\* C16 as stated: the anchor row is a scanned candidate row whose average
\* darkness, the exact mean of (765 - (r+g+b)) * alpha / 255 over its solid
\* pixels, is maximal among the scanned candidate rows, and the lowest of
\* the rows that share the maximum.
C16_DarkestRowLowestOfTies ==
    (pc = "detectTreeContentPosition" /\ ScannedCandidates(image) # {}) =>
        /\ AnchorRow \in ScannedCandidates(image)
        /\ \A z \in ScannedCandidates(image) :
              /\ ~MeanBelow(image, AnchorRow, z)
              /\ ~MeanBelow(image, z, AnchorRow) => z <= AnchorRow

\* The average darkness of row y as doubles give it: alpha / 255 rounded,
\* its product with 765 - (r+g+b) rounded, the products added from the left
\* column to the right with every sum rounded, the total divided by the
\* number of solid pixels and rounded.
RECURSIVE DoubleTotalBelow(_, _, _)
DoubleTotalBelow(img, y, x) ==
    IF x = 0 THEN BigOf(0)
    ELSE IF PixelAt(img, x - 1, y).a > 245
         THEN RoundToDouble(
                  BigAdd(DoubleTotalBelow(img, y, x - 1),
                         RoundToDouble(
                             BigMul(RoundToDouble(BigMul(DoubleOne, PixelAt(img, x - 1, y).a), 255),
                                    765 - (PixelAt(img, x - 1, y).r + PixelAt(img, x - 1, y).g
                                           + PixelAt(img, x - 1, y).b)), 1)), 1)
         ELSE DoubleTotalBelow(img, y, x - 1)

DoubleMean(img, y) == RoundToDouble(DoubleTotalBelow(img, y, img.width), SolidCount(img, y))

\* C16 amended: the anchor row is a scanned candidate row whose average
\* darkness as computed in double arithmetic is maximal among the scanned
\* candidate rows, and the lowest of the rows that share that maximum.
C16_DarkestRowInDoubles ==
    (pc = "detectTreeContentPosition" /\ ScannedCandidates(image) # {}) =>
        /\ AnchorRow \in ScannedCandidates(image)
        /\ LET anchorMean == DoubleMean(image, AnchorRow)
           IN \A z \in ScannedCandidates(image) \ {AnchorRow} :
                 LET mean == DoubleMean(image, z)
                 IN /\ ~BigLess(anchorMean, mean)
                    /\ ~BigLess(mean, anchorMean) => z <= AnchorRow

\* C16 witness: two scanned candidate rows of the same exact average
\* darkness, of which the detector chose the upper one, the darker in
\* doubles.
C16_Witness ==
    /\ pc = "detectTreeContentPosition"
    /\ ScannedCandidates(image) # {}
    /\ \E z \in ScannedCandidates(image) :
          /\ z > AnchorRow
          /\ AnchorRow \in ScannedCandidates(image)
          /\ ~MeanBelow(image, z, AnchorRow)
          /\ ~MeanBelow(image, AnchorRow, z)
          /\ BigLess(DoubleMean(image, z), DoubleMean(image, AnchorRow))

(***************************************************************************)
(* Claims about the batch drivers (SpecBatch).                             *)
(***************************************************************************)
\* C19: in both batch drivers a failure while an entity is processed is
\* reported for that entity and never aborts the batch: once a failure has
\* been reported generateAll does not end with an error, and when the loop
\* has ended every entity of the registry has been processed.
C19_FailureNeverAbortsBatch ==
    /\ report # <<>> => pc # "rejected"
    /\ (pc \in {"complete", "rejected"} /\ entity >= 1) => entity = Len(entities) + 1

=============================================================================
